---- MODULE Spec2Model ----
(***************************************************************************)
(* A model of bvh-toolbox's two conversions:                               *)
(*   csv2bvh_string  (src/src/convert/csv2bvh.py): three CSV tables ->     *)
(*                   HIERARCHY + MOTION text                               *)
(*   bvh2csv writers (src/src/convert/bvh2csv.py and bvh2csv_dir/): a      *)
(*                   parsed BVH tree -> the three CSV tables               *)
(*                                                                         *)
(* Numbers are integers: a length, angle or time value v stands for        *)
(* v * 10^-6 of the source's float.  Text is a sequence of lines, a line   *)
(* a record of its indentation (in units of the two-space string "  ")     *)
(* and its tokens.  Column names "joint.axis" are records [joint, axis].   *)
(***************************************************************************)
EXTENDS Integers, Sequences, FiniteSets, TLC

VARIABLES
    pc,              \* position of the running conversion
    err,             \* "" or the error the conversion raised
    hierarchy_file,  \* rows [joint, parent, offset] of the hierarchy CSV
    position_file,   \* [cols, data] of the position CSV
    rotation_file,   \* [cols, data] of the rotation CSV
    scale,           \* the scale parameter
    joint_info,      \* csv2bvh: the joint map, in dict insertion order
    root_pos,        \* csv2bvh: [channels, data] of the root position columns
    s,               \* csv2bvh: the hierarchy text written so far (lines)
    cur,             \* csv2bvh: index of the joint _get_hierarchy_string is at
    walk,            \* csv2bvh: [parent, depth] of the running _get_joint_depth
    depths,          \* csv2bvh: depth returned for each joint emitted so far
    motion,          \* csv2bvh: [n_frames, frame_time, frames] of the MOTION part
    bvh,             \* bvh2csv: the parsed BVH tree [joints, nframes, frame_time, frames]
    end_sites,       \* bvh2csv: the end_sites parameter
    variant,         \* bvh2csv: "recursive" (bvh2csv.py) or "stack" (bvh2csv_dir)
    world,           \* bvh2csv: joint.world_transforms of the joints processed so far
    joint_stack,     \* bvh2csv: the joints waiting to be processed
    visited,         \* bvh2csv: the joints processed so far, in header order
    exports,         \* bvh2csv: the export_* parameters and which files can be
                     \*          opened for reading or writing
    outcome          \* bvh2csv: pos_success, rot_success, hierarchy_success and
                     \*          the value returned

vars == <<pc, err, hierarchy_file, position_file, rotation_file, scale,
          joint_info, root_pos, s, cur, walk, depths, motion,
          bvh, end_sites, variant, world, joint_stack, visited, exports, outcome>>

bvhlocals == <<bvh, end_sites, variant, world, joint_stack, visited, exports>>
bvhvars == <<bvhlocals, outcome>>
csvlocals == <<joint_info, root_pos, s, cur, walk, depths, motion>>

inputs == <<hierarchy_file, position_file, rotation_file, scale>>

(***************************************************************************)
(* Bounds of the model.                                                    *)
(***************************************************************************)
MaxRows == 4

(* The default of get_hierarchy_data's scale parameter. *)
DefaultScale == 1

AllNames == <<"Hips", "Spine", "Chest", "Neck", "Head", "Hand", "Foot">>
Ghost == "Ghost"

Zero3 == <<0, 0, 0>>
Axes == <<"x", "y", "z">>
TimeCol == [joint |-> "time", axis |-> ""]
Col(j, a) == [joint |-> j, axis |-> a]

(***************************************************************************)
(* Generic helpers on sequences.                                           *)
(***************************************************************************)
Range(q) == {q[k] : k \in 1..Len(q)}

RECURSIVE Concat(_)
Concat(qs) == IF qs = <<>> THEN <<>> ELSE Head(qs) \o Concat(Tail(qs))

SelectIdx(q, Test(_)) ==
    LET RECURSIVE Go(_)
        Go(k) == IF k > Len(q) THEN <<>>
                 ELSE (IF Test(q[k]) THEN <<k>> ELSE <<>>) \o Go(k + 1)
    IN Go(1)

Upper(a) == CASE a = "x" -> "X" [] a = "y" -> "Y" [] a = "z" -> "Z" [] OTHER -> a

(***************************************************************************)
(* The joint map: a sequence of nodes in insertion order, keyed by name.   *)
(***************************************************************************)
Keys(nodes) == {nodes[k].name : k \in 1..Len(nodes)}
IdxOf(nodes, name) == CHOOSE k \in 1..Len(nodes) : nodes[k].name = name
Node(nodes, name) == nodes[IdxOf(nodes, name)]

(* The dict comprehension of get_hierarchy_data: a later row of the same   *)
(* joint replaces the value and keeps the first row's place.               *)
RECURSIVE _dict_from_rows(_, _)
_dict_from_rows(rows, sc) ==
    IF rows = <<>> THEN <<>>
    ELSE LET n    == Len(rows)
             r    == rows[n]
             init == _dict_from_rows(SubSeq(rows, 1, n - 1), sc)
             node == [name |-> r.joint, parent |-> r.parent,
                      offset |-> [k \in 1..3 |-> r.offset[k] * sc],
                      children |-> <<>>, channels |-> <<>>]
         IN IF r.joint \in Keys(init)
            THEN [init EXCEPT ![IdxOf(init, r.joint)] = node]
            ELSE Append(init, node)

(* _update_children: [ok, nodes]; ok is FALSE when a non-empty parent is   *)
(* no key of the map (ValueError).                                         *)
RECURSIVE _update_children_from(_, _)
_update_children_from(nodes, k) ==
    IF k > Len(nodes) THEN [ok |-> TRUE, nodes |-> nodes]
    ELSE LET parent == nodes[k].parent
         IN IF parent \notin Keys(nodes)
            THEN IF parent = ""
                 THEN _update_children_from(nodes, k + 1)
                 ELSE [ok |-> FALSE, nodes |-> nodes]
            ELSE LET p == IdxOf(nodes, parent)
                 IN _update_children_from(
                        [nodes EXCEPT ![p].children = Append(@, nodes[k].name)],
                        k + 1)

_update_children(nodes) == _update_children_from(nodes, 1)

(* hierarchy_sanity_check: "" when no error occurred, else the error of    *)
(* the first failing check in iteration order.                             *)
RECURSIVE _sanity_scan(_, _, _)
_sanity_scan(nodes, k, found_root) ==
    IF k > Len(nodes)
    THEN IF found_root THEN "" ELSE "NoRootFound"
    ELSE LET node   == nodes[k].name
             parent == nodes[k].parent
         IN IF parent = "" /\ found_root THEN "MultipleRoots"
            ELSE IF node = parent THEN "SelfParent"
            ELSE IF parent \in Range(nodes[k].children) THEN "CyclicRelation"
            ELSE IF parent # "" /\ parent \notin Keys(nodes) THEN "UnresolvedParent"
            ELSE _sanity_scan(nodes, k + 1, found_root \/ parent = "")

(* hierarchy_sanity_check without its parent-among-children check. *)
RECURSIVE _sanity_scan_no_cycle(_, _, _)
_sanity_scan_no_cycle(nodes, k, found_root) ==
    IF k > Len(nodes)
    THEN IF found_root THEN "" ELSE "NoRootFound"
    ELSE LET node   == nodes[k].name
             parent == nodes[k].parent
         IN IF parent = "" /\ found_root THEN "MultipleRoots"
            ELSE IF node = parent THEN "SelfParent"
            ELSE IF parent # "" /\ parent \notin Keys(nodes) THEN "UnresolvedParent"
            ELSE _sanity_scan_no_cycle(nodes, k + 1, found_root \/ parent = "")

hierarchy_sanity_check_no_cycle(nodes) == _sanity_scan_no_cycle(nodes, 1, FALSE)

hierarchy_sanity_check(nodes) == _sanity_scan(nodes, 1, FALSE)

(* get_hierarchy_data: [err, nodes]; nodes is returned only without error. *)
(* np.recfromcsv gives a 0-d array for a table of one row, and the         *)
(* enumeration of line 58 raises TypeError on it.                          *)
get_hierarchy_data(rows, sc) ==
    LET upd == _update_children(_dict_from_rows(rows, sc))
        e   == IF Len(rows) = 1 THEN "TypeError"
               ELSE IF upd.ok THEN hierarchy_sanity_check(upd.nodes)
               ELSE "UnresolvedParent"
    IN [err |-> e, nodes |-> IF e = "" THEN upd.nodes ELSE <<>>]

(* get_root_name: the first joint with an empty parent. *)
get_root_name(nodes) ==
    LET roots == SelectIdx(nodes, LAMBDA n : n.parent = "")
    IN IF roots = <<>> THEN "" ELSE nodes[roots[1]].name

(***************************************************************************)
(* get_transform_data and numpy's array shapes: genfromtxt gives a 2-D     *)
(* array only for two or more data rows; one row gives a 1-D array of the  *)
(* columns, no row an empty 1-D array.                                     *)
(***************************************************************************)
Is2D(table) == Len(table.data) >= 2
NpLen(table) == IF Len(table.data) >= 2 THEN Len(table.data)
                ELSE IF Len(table.data) = 1 THEN Len(table.cols) ELSE 0

(* list.index: the first place of a column name. *)
ColIndex(cols, c) == CHOOSE k \in 1..Len(cols) :
                        cols[k] = c /\ \A m \in 1..(k - 1) : cols[m] # c

TakeCols(data, idx) == [r \in 1..Len(data) |-> [k \in 1..Len(idx) |-> data[r][idx[k]]]]

ScaleData(data, sc) == [r \in 1..Len(data) |-> [k \in 1..Len(data[r]) |-> data[r][k] * sc]]

(* df_to_joints: the set of joint names of the columns other than 'time'   *)
(* (the source sorts it; two sorted lists of distinct names are equal      *)
(* exactly when the sets are).                                             *)
df_to_joints(df) == {df[k].joint : k \in {m \in 1..Len(df) : df[m] # TimeCol}}

(* _df_to_channels: joint -> its rotation channels in column order. *)
_df_to_channels(df) ==
    LET dofIdx == SelectIdx(df, LAMBDA c : c # TimeCol)
    IN [j \in df_to_joints(df) |->
          LET mine == SelectIdx(df, LAMBDA c : c # TimeCol /\ c.joint = j)
          IN [k \in 1..Len(mine) |-> Upper(df[mine[k]].axis) \o "rotation"]]

(* _update_channels: joints with children get channels, the root's         *)
(* position channels first.                                                *)
_update_channels(nodes, root_pos_channels, rot_channels) ==
    [k \in 1..Len(nodes) |->
        IF nodes[k].children = <<>> THEN nodes[k]
        ELSE IF nodes[k].parent = ""
        THEN [nodes[k] EXCEPT !.channels = root_pos_channels \o rot_channels[nodes[k].name]]
        ELSE [nodes[k] EXCEPT !.channels = rot_channels[nodes[k].name]]]

non_leaf_nodes(nodes) == {nodes[k].name : k \in {m \in 1..Len(nodes) : nodes[m].children # <<>>}}

(***************************************************************************)
(* The hierarchy text.  A line is [indent, kind, arg, joint]: indent       *)
(* counts the leading "  " units, kind and arg are its tokens, and joint   *)
(* names the joint whose block wrote it (not part of the text: an          *)
(* 'End Site' line does not say whose it is).                              *)
(***************************************************************************)
Line(n, kind, arg, joint) == [indent |-> n, kind |-> kind, arg |-> arg, joint |-> joint]

HierarchyHeader == <<Line(0, "HIERARCHY", <<>>, "")>>

(* A count of single spaces instead of two-space units. *)
CountIndent_spaces(line) == 2 * line.indent

(* str.count("  ") on a line: its indentation units; the tokens of a line  *)
(* are joined by single spaces.                                            *)
CountIndent(line) == line.indent

(* _get_joint_string writing a childless joint under its name. *)
_get_joint_string_named_leaf(nodes, joint, depth) ==
    LET properties == Node(nodes, joint)
        header == IF properties.parent = "" THEN Line(depth, "ROOT", <<joint>>, joint)
                  ELSE Line(depth, "JOINT", <<joint>>, joint)
    IN <<header,
         Line(depth, "{", <<>>, joint),
         Line(depth + 1, "OFFSET", properties.offset, joint)>>
       \o (IF properties.children = <<>>
           THEN <<Line(depth, "}", <<>>, joint)>>
           ELSE <<Line(depth + 1, "CHANNELS", properties.channels, joint)>>)

(* _get_joint_string, for the depth _get_joint_depth returned. *)
_get_joint_string(nodes, joint, depth) ==
    LET properties == Node(nodes, joint)
        header == IF properties.parent = "" THEN Line(depth, "ROOT", <<joint>>, joint)
                  ELSE IF properties.children = <<>>
                  THEN Line(depth, "End Site", <<>>, joint)
                  ELSE Line(depth, "JOINT", <<joint>>, joint)
    IN <<header,
         Line(depth, "{", <<>>, joint),
         Line(depth + 1, "OFFSET", properties.offset, joint)>>
       \o (IF properties.children = <<>>
           THEN <<Line(depth, "}", <<>>, joint)>>
           ELSE <<Line(depth + 1, "CHANNELS", properties.channels, joint)>>)

(* _close_scopes closing one scope too few. *)
_close_scopes_one_short(hierarchy_string, target_depth) ==
    LET last_depth == CountIndent(hierarchy_string[Len(hierarchy_string)])
        diff == last_depth - target_depth - 1
    IN hierarchy_string \o
       [depth \in 1..(IF diff > 0 THEN diff ELSE 0) |->
            Line(last_depth - (depth - 1) - 1, "}", <<>>, "")]

(* _close_scopes: closing braces from the indentation of the last line     *)
(* down to target_depth.                                                   *)
_close_scopes(hierarchy_string, target_depth) ==
    LET last_depth == CountIndent(hierarchy_string[Len(hierarchy_string)])
        diff == last_depth - target_depth
    IN hierarchy_string \o
       [depth \in 1..(IF diff > 0 THEN diff ELSE 0) |->
            Line(last_depth - (depth - 1) - 1, "}", <<>>, "")]

(* _get_frame_time: last cumulative time / (samples - 1), as a fraction. *)
_get_frame_time(time_steps) ==
    [num |-> time_steps[Len(time_steps)], den |-> Len(time_steps) - 1]

(***************************************************************************)
(* The parsed BVH tree.  bvh.joints lists the nodes in file order, each    *)
(* [name, parent, kind, offset, channels] with parent the index of the     *)
(* parent node (0 for the root) and kind one of "ROOT", "JOINT", "End";    *)
(* bvh.frames[f][j] holds the channel values of joint j in frame f, in     *)
(* the order of its channels.                                              *)
(***************************************************************************)
Unit == 10 ^ 6

RootOf(tree) == CHOOSE j \in 1..Len(tree.joints) : tree.joints[j].kind = "ROOT"

(* joint.filter(kind): the children of that kind, in file order. *)
Filter(tree, j, kind) ==
    SelectIdx([k \in 1..Len(tree.joints) |-> [idx |-> k, node |-> tree.joints[k]]],
              LAMBDA e : e.node.parent = j /\ e.node.kind = kind)

(* BvhTree.get_joints: the joint, its first end site when asked for, then  *)
(* its child joints, recursively.                                          *)
RECURSIVE get_joints_from(_, _, _)
get_joints_from(tree, j, with_ends) ==
    LET end == Filter(tree, j, "End")
        kids == Filter(tree, j, "JOINT")
    IN <<j>> \o (IF with_ends /\ end # <<>> THEN <<end[1]>> ELSE <<>>)
            \o Concat([k \in 1..Len(kids) |-> get_joints_from(tree, kids[k], with_ends)])

get_joints(tree, with_ends) == get_joints_from(tree, RootOf(tree), with_ends)

joint_parent_name(tree, j) ==
    IF tree.joints[j].parent = 0 THEN "" ELSE tree.joints[tree.joints[j].parent].name

IsRotation(c) == c \in {"Xrotation", "Yrotation", "Zrotation"}

ChannelPlace(tree, j, c) == CHOOSE k \in 1..Len(tree.joints[j].channels) :
                               tree.joints[j].channels[k] = c

(* Rotation matrices for angles that are multiples of 90 degrees. *)
Cos4 == <<1, 0, -1, 0>>
Sin4 == <<0, 1, 0, -1>>
QuarterTurns(v) == (v \div (90 * Unit)) % 4

Identity3 == <<<<1, 0, 0>>, <<0, 1, 0>>, <<0, 0, 1>>>>

AxisRotation(c, v) ==
    LET co == Cos4[QuarterTurns(v) + 1]
        si == Sin4[QuarterTurns(v) + 1]
    IN CASE c = "Xrotation" -> <<<<1, 0, 0>>, <<0, co, -si>>, <<0, si, co>>>>
         [] c = "Yrotation" -> <<<<co, 0, si>>, <<0, 1, 0>>, <<-si, 0, co>>>>
         [] c = "Zrotation" -> <<<<co, -si, 0>>, <<si, co, 0>>, <<0, 0, 1>>>>

MatMul3(A, B) == [r \in 1..3 |-> [c \in 1..3 |->
                    A[r][1] * B[1][c] + A[r][2] * B[2][c] + A[r][3] * B[3][c]]]
MatVec3(A, v) == [r \in 1..3 |-> A[r][1] * v[1] + A[r][2] * v[2] + A[r][3] * v[3]]

RECURSIVE RotProduct(_, _)
RotProduct(chans, vals) ==
    IF chans = <<>> THEN Identity3
    ELSE LET rest == RotProduct(Tail(chans), Tail(vals))
         IN IF IsRotation(Head(chans))
            THEN MatMul3(AxisRotation(Head(chans), Head(vals)), rest)
            ELSE rest

(* get_affines, for one frame: the rotation of the joint's rotation        *)
(* channels composed in declared order, and the translation of its         *)
(* position channels (zero where it has none).                             *)
get_affines(tree, j, f) ==
    LET chans == tree.joints[j].channels
        vals == tree.frames[f][j]
        pos(c) == IF c \in Range(chans) THEN vals[ChannelPlace(tree, j, c)] ELSE 0
    IN [R |-> RotProduct(chans, vals),
        t |-> <<pos("Xposition"), pos("Yposition"), pos("Zposition")>>]

(* t3d.affines.compose(zeros, eye, ones): the identity affine. *)
IdentityAffine == [R |-> Identity3, t |-> Zero3]

(* np.matmul of two affines with parent on the left, in reverse order. *)
matmul_swapped(a, b) ==
    [R |-> MatMul3(b.R, a.R),
     t |-> [k \in 1..3 |-> MatVec3(b.R, a.t)[k] + b.t[k]]]

(* np.matmul of two affines. *)
matmul(a, b) ==
    [R |-> MatMul3(a.R, b.R),
     t |-> [k \in 1..3 |-> MatVec3(a.R, b.t)[k] + a.t[k]]]

(* The local transform without the offset for end sites. *)
local_transform_no_end_offset(tree, j, f) ==
    IF tree.joints[j].kind = "End" THEN IdentityAffine
    ELSE IF j # RootOf(tree)
    THEN [get_affines(tree, j, f) EXCEPT !.t = tree.joints[j].offset]
    ELSE get_affines(tree, j, f)

(* lines 90-102 of get_world_positions: the joint's own transform, with    *)
(* the offset for translation unless it is the root.                       *)
local_transform(tree, j, f) ==
    LET own == IF tree.joints[j].kind = "End" THEN IdentityAffine
               ELSE get_affines(tree, j, f)
    IN IF j # RootOf(tree) THEN [own EXCEPT !.t = tree.joints[j].offset] ELSE own

(* lines 99-105: composition with the parent's stored world transform,     *)
(* then the scale on the translation.                                      *)
world_transform(tree, j, f, parent_world, sc) ==
    LET composed == IF j # RootOf(tree)
                    THEN matmul(parent_world, local_transform(tree, j, f))
                    ELSE local_transform(tree, j, f)
    IN IF sc # 1 THEN [composed EXCEPT !.t = [k \in 1..3 |-> composed.t[k] * sc]]
       ELSE composed

(* joint.world_transforms as the code leaves it, for a whole chain. *)
RECURSIVE world_transforms(_, _, _, _)
world_transforms(tree, j, f, sc) ==
    world_transform(tree, j, f,
                    IF j = RootOf(tree) THEN IdentityAffine
                    ELSE world_transforms(tree, tree.joints[j].parent, f, sc),
                    sc)

(* '%10.5f': a value in units of 10^-6, rounded to five decimals. *)
Fmt5(v) == IF v >= 0 THEN ((v + 5) \div 10) * 10 ELSE -(((-v + 5) \div 10) * 10)

(* np.arange(0, (nframes - 0.5) * frame_time, frame_time). *)
time_col(tree) == [f \in 1..tree.nframes |-> (f - 1) * tree.frame_time]

Lower1(c) == CASE c \in {"Xposition", "Xrotation"} -> "x"
               [] c \in {"Yposition", "Yrotation"} -> "y"
               [] c \in {"Zposition", "Zrotation"} -> "z"

(***************************************************************************)
(* bvh2csv: the three writers, in the order bvh2csv calls them.            *)
(***************************************************************************)
NameWidth == 20

(* A field of dtype (np.unicode_, 20) keeps the first 20 characters. *)
Unicode20(name) == IF Len(name) > NameWidth THEN SubSeq(name, 1, NameWidth) ELSE name

(* lines 107-109: the header and the translation column of one joint. *)
PositionsTable(tree, order, w) ==
    [cols |-> <<TimeCol>> \o Concat([k \in 1..Len(order) |->
                  [a \in 1..3 |-> Col(tree.joints[order[k]].name, Axes[a])]]),
     data |-> [f \in 1..tree.nframes |->
                  <<Fmt5(time_col(tree)[f])>> \o Concat([k \in 1..Len(order) |->
                      [a \in 1..3 |-> Fmt5(w[order[k]][f].t[a])]])]]

(* write_joint_positions up to the first joint: the root is the one to     *)
(* process.                                                                *)
(* bvh2csv lines 195-213: the BVH file is read (False is returned when it  *)
(* cannot be opened), then the first requested writer is entered.          *)
EnterWritePositions ==
    /\ pc = "bvh2csv"
    /\ IF ~exports.readable
       THEN /\ outcome' = [outcome EXCEPT !.returned = "False"]
            /\ pc' = "returned"
            /\ UNCHANGED <<joint_stack, visited, world>>
       ELSE IF exports.position
       THEN /\ joint_stack' = <<RootOf(bvh)>>
            /\ visited' = <<>>
            /\ world' = <<>>
            /\ pc' = "positions_out"
            /\ UNCHANGED outcome
       ELSE /\ pc' = "rotations_out"
            /\ UNCHANGED <<joint_stack, visited, world, outcome>>
    /\ UNCHANGED <<inputs, err, csvlocals, bvh, end_sites, variant, exports>>

(* The body both variants share (bvh2csv.py lines 90-109): joint j gets    *)
(* its world transform from its parent's stored one.                       *)
Process(j) ==
    /\ world' = [k \in DOMAIN world \cup {j} |->
                   IF k = j
                   THEN [f \in 1..bvh.nframes |->
                           world_transform(bvh, j, f,
                               IF j = RootOf(bvh) THEN IdentityAffine
                               ELSE world[bvh.joints[j].parent][f],
                               scale)]
                   ELSE world[k]]
    /\ visited' = Append(visited, j)

(* The joints to process after j when only j's first child joint is kept. *)
Following_first_child(j) ==
    LET end == Filter(bvh, j, "End")
        kids == Filter(bvh, j, "JOINT")
    IN (IF end_sites /\ end # <<>> THEN <<end[1]>> ELSE <<>>)
       \o (IF kids = <<>> THEN <<>> ELSE <<kids[1]>>)

(* lines 111-116 (bvh2csv_dir lines 57-65): what is visited after joint j, *)
(* its first End Site when end_sites is set, then its child joints.        *)
Following(j) ==
    LET end == Filter(bvh, j, "End")
    IN (IF end_sites /\ end # <<>> THEN <<end[1]>> ELSE <<>>) \o Filter(bvh, j, "JOINT")

(* bvh2csv.py, get_world_positions: one call's own work; its recursive     *)
(* calls (the end site, then each child joint) come next, before whatever  *)
(* the callers still have to do.                                           *)
GetWorldPositions ==
    /\ pc = "positions_out"
    /\ variant = "recursive"
    /\ joint_stack # <<>>
    /\ LET j == Head(joint_stack)
       IN /\ Process(j)
          /\ joint_stack' = Following(j) \o Tail(joint_stack)
    /\ UNCHANGED <<inputs, pc, err, csvlocals, bvh, end_sites, variant, exports, outcome>>

(* bvh2csv_dir/write_joint_positions.py: one iteration of the              *)
(* while joint_stack loop.                                                 *)
JointStackLoop ==
    /\ pc = "positions_out"
    /\ variant = "stack"
    /\ joint_stack # <<>>
    /\ LET j == joint_stack[Len(joint_stack)]
       IN /\ Process(j)
          /\ joint_stack' = SubSeq(joint_stack, 1, Len(joint_stack) - 1) \o Following(j)
    /\ UNCHANGED <<inputs, pc, err, csvlocals, bvh, end_sites, variant, exports, outcome>>

(* np.concatenate and np.savetxt of write_joint_positions: the table is    *)
(* written, or IOError is caught and False is returned (lines 120-126).    *)
SavePositions ==
    /\ pc = "positions_out"
    /\ joint_stack = <<>>
    /\ IF exports.writable.position
       THEN /\ position_file' = PositionsTable(bvh, visited, world)
            /\ outcome' = [outcome EXCEPT !.pos_success = TRUE]
       ELSE /\ outcome' = [outcome EXCEPT !.pos_success = FALSE]
            /\ UNCHANGED position_file
    /\ pc' = "rotations_out"
    /\ UNCHANGED <<hierarchy_file, rotation_file, scale, err, csvlocals, bvhlocals>>

(* write_joint_rotations. *)
RotationsTable(tree) ==
    LET joints == get_joints(tree, FALSE)
        rot(j) == SelectIdx(tree.joints[j].channels, IsRotation)
    IN [cols |-> <<TimeCol>> \o Concat([k \in 1..Len(joints) |->
                    [c \in 1..Len(rot(joints[k])) |->
                        Col(tree.joints[joints[k]].name,
                            Lower1(tree.joints[joints[k]].channels[rot(joints[k])[c]]))]]),
        data |-> [f \in 1..tree.nframes |->
                    <<Fmt5(time_col(tree)[f])>> \o Concat([k \in 1..Len(joints) |->
                        [c \in 1..Len(rot(joints[k])) |->
                            Fmt5(tree.frames[f][joints[k]][rot(joints[k])[c]])]])]]

(* bvh2csv lines 215-216: write_joint_rotations when it is requested. *)
WriteJointRotations ==
    /\ pc = "rotations_out"
    /\ IF ~exports.rotation
       THEN UNCHANGED <<rotation_file, outcome>>
       ELSE IF exports.writable.rotation
       THEN /\ rotation_file' = RotationsTable(bvh)
            /\ outcome' = [outcome EXCEPT !.rot_success = TRUE]
       ELSE /\ outcome' = [outcome EXCEPT !.rot_success = FALSE]
            /\ UNCHANGED rotation_file
    /\ pc' = "hierarchy_out"
    /\ UNCHANGED <<hierarchy_file, position_file, scale, err, csvlocals, bvhlocals>>

(* write_joint_hierarchy. *)
HierarchyRows(tree, sc) ==
    LET joints == get_joints(tree, TRUE)
    IN [k \in 1..Len(joints) |->
          [joint |-> Unicode20(tree.joints[joints[k]].name),
           parent |-> Unicode20(joint_parent_name(tree, joints[k])),
           offset |-> [a \in 1..3 |-> Fmt5(sc * tree.joints[joints[k]].offset[a])]]]

(* bvh2csv lines 220-221: bool(sum of the three flags). *)
n_succeeded(pos_success, rot_success, hierarchy_success) ==
    (IF pos_success THEN 1 ELSE 0) + (IF rot_success THEN 1 ELSE 0)
        + (IF hierarchy_success THEN 1 ELSE 0)

Bool(n) == IF n # 0 THEN "True" ELSE "False"

(* bvh2csv lines 217-221: write_joint_hierarchy when it is requested, and  *)
(* the value bvh2csv returns.                                              *)
WriteJointHierarchy ==
    /\ pc = "hierarchy_out"
    /\ LET hierarchy_success == IF exports.hierarchy THEN exports.writable.hierarchy
                                ELSE outcome.hierarchy_success
       IN /\ IF exports.hierarchy /\ exports.writable.hierarchy
             THEN hierarchy_file' = HierarchyRows(bvh, scale)
             ELSE UNCHANGED hierarchy_file
          /\ outcome' = [outcome EXCEPT
                !.hierarchy_success = hierarchy_success,
                !.returned = Bool(n_succeeded(outcome.pos_success, outcome.rot_success,
                                              hierarchy_success))]
    /\ pc' = "start"
    /\ UNCHANGED <<position_file, rotation_file, scale, err, csvlocals, bvhlocals>>

Bvh2Csv ==
    \/ EnterWritePositions
    \/ GetWorldPositions
    \/ JointStackLoop
    \/ SavePositions
    \/ WriteJointRotations
    \/ WriteJointHierarchy

NoTable == [cols |-> <<>>, data |-> <<>>]
NoTree == [joints |-> <<>>, nframes |-> 0, frame_time |-> 0, frames |-> <<>>]

(* bvh2csv's defaults: every table is exported; and every file can be     *)
(* opened.                                                                 *)
ExportAll == [readable |-> TRUE, position |-> TRUE, rotation |-> TRUE, hierarchy |-> TRUE,
              writable |-> [position |-> TRUE, rotation |-> TRUE, hierarchy |-> TRUE]]

(* lines 203-205: "assume everything works and only set False on error". *)
NoOutcome == [pos_success |-> TRUE, rot_success |-> TRUE, hierarchy_success |-> TRUE,
              returned |-> "none"]

(* No BVH tree is involved: the CSV files are given. *)
Bvh2CsvIdle ==
    /\ exports = ExportAll
    /\ outcome = NoOutcome
    /\ bvh = NoTree
    /\ end_sites = FALSE
    /\ variant = "recursive"
    /\ world = <<>>
    /\ joint_stack = <<>>
    /\ visited = <<>>

(***************************************************************************)
(* csv2bvh_string, one action per step of its body.                        *)
(***************************************************************************)
MaxWalk == MaxRows + 2

(* lines 224-225: depth = 0 and the parent of the joint. *)
StartWalk(nodes, k) == [parent |-> nodes[k].parent, depth |-> 0]

(* line 333: joint_info = get_hierarchy_data(hierarchy_file); the scale    *)
(* parameter is not passed on, so the default applies.                     *)
GetHierarchyData ==
    /\ pc = "start"
    /\ LET r == get_hierarchy_data(hierarchy_file, DefaultScale)
       IN /\ err' = r.err
          /\ joint_info' = r.nodes
          /\ pc' = IF r.err = "" THEN "positions" ELSE "error"
    /\ UNCHANGED <<bvhvars, inputs, root_pos, s, cur, walk, depths, motion>>

(* lines 336-346: the root's position columns, scaled. *)
GetRootPositions ==
    /\ pc = "positions"
    /\ LET root_name == get_root_name(joint_info)
           pos_df == position_file.cols
           positions == ScaleData(position_file.data, scale)
           root_pos_df == SelectIdx(pos_df, LAMBDA c : c.joint = root_name)
           root_pos_channels ==
               [k \in 1..Len(root_pos_df) |-> Upper(pos_df[root_pos_df[k]].axis) \o "position"]
           root_pos_indices ==
               [k \in 1..Len(root_pos_df) |-> ColIndex(pos_df, pos_df[root_pos_df[k]])]
       IN IF root_pos_df = <<>>
          THEN /\ err' = "RootPositionMissing"
               /\ pc' = "error"
               /\ UNCHANGED root_pos
          ELSE IF ~Is2D(position_file)
          THEN /\ err' = "IndexError"
               /\ pc' = "error"
               /\ UNCHANGED root_pos
          ELSE /\ root_pos' = [channels |-> root_pos_channels,
                               data |-> TakeCols(positions, root_pos_indices)]
               /\ pc' = "rotations"
               /\ UNCHANGED err
    /\ UNCHANGED <<bvhvars, inputs, joint_info, s, cur, walk, depths, motion>>

(* lines 349-359: the frame counts agree and every joint with children     *)
(* has rotation columns.                                                   *)
GetJointRotations ==
    /\ pc = "rotations"
    /\ LET n_frames == Len(root_pos.data)
       IN IF NpLen(rotation_file) # n_frames
          THEN /\ err' = "FrameCountMismatch"
               /\ pc' = "error"
          ELSE IF df_to_joints(rotation_file.cols) # non_leaf_nodes(joint_info)
          THEN /\ err' = "MissingRotationData"
               /\ pc' = "error"
          ELSE /\ pc' = "channels"
               /\ UNCHANGED err
    /\ UNCHANGED <<bvhvars, inputs, joint_info, root_pos, s, cur, walk, depths, motion>>

(* lines 362-363 and the entry of _get_hierarchy_string (line 290). *)
UpdateChannels ==
    /\ pc = "channels"
    /\ IF TimeCol \notin Range(rotation_file.cols)
       THEN /\ err' = "ValueError"
            /\ pc' = "error"
            /\ UNCHANGED <<joint_info, s, cur, walk>>
       ELSE /\ joint_info' = _update_channels(joint_info, root_pos.channels,
                                              _df_to_channels(rotation_file.cols))
            /\ s' = HierarchyHeader
            /\ cur' = 1
            /\ walk' = StartWalk(joint_info, 1)
            /\ pc' = "depth"
            /\ UNCHANGED err
    /\ UNCHANGED <<bvhvars, inputs, root_pos, depths, motion>>

(* _get_joint_depth, one iteration of its while loop (lines 226-228); the  *)
(* counter saturates at MaxWalk.                                           *)
JointDepthLoop ==
    /\ pc = "depth"
    /\ walk.parent # ""
    /\ walk' = [parent |-> Node(joint_info, walk.parent).parent,
                depth |-> IF walk.depth < MaxWalk THEN walk.depth + 1 ELSE walk.depth]
    /\ UNCHANGED <<bvhvars, inputs, pc, err, joint_info, root_pos, s, cur, depths, motion>>

(* One iteration of _get_hierarchy_string's loop (lines 291-293), once     *)
(* _get_joint_depth has returned.                                          *)
ComposeJoint ==
    /\ pc = "depth"
    /\ walk.parent = ""
    /\ LET joint == joint_info[cur].name
       IN s' = _close_scopes(s, walk.depth) \o _get_joint_string(joint_info, joint, walk.depth)
    /\ depths' = Append(depths, walk.depth)
    /\ IF cur < Len(joint_info)
       THEN /\ cur' = cur + 1
            /\ walk' = StartWalk(joint_info, cur + 1)
            /\ pc' = "depth"
       ELSE /\ pc' = "close"
            /\ UNCHANGED <<cur, walk>>
    /\ UNCHANGED <<bvhvars, inputs, err, joint_info, root_pos, motion>>

(* line 294: the final _close_scopes(s). *)
CloseScopes ==
    /\ pc = "close"
    /\ s' = _close_scopes(s, 0)
    /\ pc' = "motion"
    /\ UNCHANGED <<bvhvars, inputs, err, joint_info, root_pos, cur, walk, depths, motion>>

(* lines 369-371: the MOTION part. *)
MakeMotion ==
    /\ pc = "motion"
    /\ IF ~Is2D(rotation_file)
       THEN /\ err' = "IndexError"
            /\ pc' = "error"
            /\ UNCHANGED motion
       ELSE LET rotations == rotation_file.data
                rest == [k \in 1..(Len(rotation_file.cols) - 1) |-> k + 1]
                motion_data == [r \in 1..Len(rotations) |->
                                   root_pos.data[r] \o TakeCols(rotations, rest)[r]]
                t == ColIndex(rotation_file.cols, TimeCol)
                time_steps == [r \in 1..Len(rotations) |-> rotations[r][t]]
            IN /\ motion' = [n_frames |-> Len(root_pos.data),
                             frame_time |-> _get_frame_time(time_steps),
                             frames |-> motion_data]
               /\ pc' = "done"
               /\ UNCHANGED err
    /\ UNCHANGED <<bvhvars, inputs, joint_info, root_pos, s, cur, walk, depths>>

Csv2BvhString ==
    \/ GetHierarchyData
    \/ GetRootPositions
    \/ GetJointRotations
    \/ UpdateChannels
    \/ JointDepthLoop
    \/ ComposeJoint
    \/ CloseScopes
    \/ MakeMotion

NoMotion == [n_frames |-> 0, frame_time |-> [num |-> 0, den |-> 1], frames |-> <<>>]

Csv2BvhLocalsFresh ==
    /\ joint_info = <<>>
    /\ root_pos = [channels |-> <<>>, data |-> <<>>]
    /\ s = <<>>
    /\ cur = 0
    /\ walk = [parent |-> "", depth |-> 0]
    /\ depths = <<>>
    /\ motion = NoMotion

Csv2BvhLocalsInit ==
    /\ pc = "start"
    /\ err = ""
    /\ Csv2BvhLocalsFresh

(***************************************************************************)
(* SpecHier: csv2bvh_string on every hierarchy table of up to MaxRows      *)
(* joints (row k names AllNames[k]; each parent cell is empty, a joint of  *)
(* the table or a name that is no joint), with position and rotation       *)
(* tables that hold the columns the table's tree asks for.                 *)
(***************************************************************************)
FrameTime == 33333

HierTables ==
    UNION {{[k \in 1..n |-> [joint |-> AllNames[k], parent |-> ps[k], offset |-> Zero3]] :
                ps \in [1..n -> Range(SubSeq(AllNames, 1, n)) \cup {"", Ghost}]}
           : n \in 0..MaxRows}

FirstRoot(rows) ==
    LET roots == SelectIdx(rows, LAMBDA r : r.parent = "")
    IN IF roots = <<>> THEN AllNames[1] ELSE rows[roots[1]].joint

CompanionPos(rows) ==
    LET r == FirstRoot(rows)
    IN [cols |-> <<TimeCol, Col(r, "x"), Col(r, "y"), Col(r, "z")>>,
        data |-> <<<<0, 0, 0, 0>>, <<FrameTime, 0, 0, 0>>>>]

CompanionRot(rows) ==
    LET inner == SelectIdx(rows, LAMBDA r : \E q \in Range(rows) : q.parent = r.joint)
        cols == <<TimeCol>> \o Concat([k \in 1..Len(inner) |->
                    <<Col(rows[inner[k]].joint, "z"), Col(rows[inner[k]].joint, "x"),
                      Col(rows[inner[k]].joint, "y")>>])
    IN [cols |-> cols,
        data |-> <<[k \in 1..Len(cols) |-> 0],
                   [k \in 1..Len(cols) |-> IF k = 1 THEN FrameTime ELSE 0]>>]

InitHier ==
    /\ hierarchy_file \in HierTables
    /\ position_file = CompanionPos(hierarchy_file)
    /\ rotation_file = CompanionRot(hierarchy_file)
    /\ scale = 1
    /\ Csv2BvhLocalsInit
    /\ Bvh2CsvIdle

SpecHier == InitHier /\ [][Csv2BvhString]_vars

(***************************************************************************)
(* What the claims speak of: trees, pre-order listings, brace counts.      *)
(***************************************************************************)
Roots(nodes) == {k \in 1..Len(nodes) : nodes[k].parent = ""}

(* The joint reached from name after n steps along the parent links ("" at *)
(* and above the root, or where a link does not resolve).                  *)
RECURSIVE Up(_, _, _)
Up(nodes, name, n) ==
    IF n = 0 \/ name = "" \/ name \notin Keys(nodes) THEN name
    ELSE Up(nodes, Node(nodes, name).parent, n - 1)

ParentsResolve(nodes) == \A k \in 1..Len(nodes) :
                            nodes[k].parent # "" => nodes[k].parent \in Keys(nodes)

(* No joint is its own ancestor: every parent chain ends at a root. *)
Acyclic(nodes) == \A k \in 1..Len(nodes) : Up(nodes, nodes[k].name, Len(nodes)) = ""

IsTree(nodes) == Cardinality(Roots(nodes)) = 1 /\ ParentsResolve(nodes) /\ Acyclic(nodes)

(* The set of names on the chain from a joint up to its root. *)
PathNames(nodes, name) == {Up(nodes, name, n) : n \in 0..Len(nodes)} \ {""}

TreeDepth(nodes, name) == Cardinality(PathNames(nodes, name)) - 1

(* The iteration order lists the tree in pre-order: the root first, and    *)
(* every later joint a child of the joint before it or of one of that      *)
(* joint's ancestors.                                                      *)
IsPreorder(nodes) ==
    /\ IsTree(nodes)
    /\ nodes[1].parent = ""
    /\ \A k \in 2..Len(nodes) : nodes[k].parent \in PathNames(nodes, nodes[k - 1].name)

CountKind(lines, from, to, kind) == Cardinality({k \in from..to : lines[k].kind = kind})
Opens(lines, k) == CountKind(lines, 1, k, "{")
Closes(lines, k) == CountKind(lines, 1, k, "}")
OpenScopes(lines) == Opens(lines, Len(lines)) - Closes(lines, Len(lines))

HeaderKinds == {"ROOT", "JOINT", "End Site"}

(* The joints whose scopes are open after the first k lines, innermost     *)
(* last.                                                                   *)
RECURSIVE ScopeStack(_, _)
ScopeStack(lines, k) ==
    IF k = 0 THEN <<>>
    ELSE LET st == ScopeStack(lines, k - 1)
         IN IF lines[k].kind = "{" THEN Append(st, lines[k].joint)
            ELSE IF lines[k].kind = "}" /\ st # <<>> THEN SubSeq(st, 1, Len(st) - 1)
            ELSE st

HeaderPos(lines, joint) == CHOOSE k \in 1..Len(lines) :
                              lines[k].kind \in HeaderKinds /\ lines[k].joint = joint

Composing == pc \in {"depth", "close", "motion", "done"}
Composed == pc \in {"motion", "done"}

(***************************************************************************)
(* The map the validation is given: the rows as get_hierarchy_data reads   *)
(* them, before _update_children.                                          *)
(***************************************************************************)
GivenMap == _dict_from_rows(hierarchy_file, DefaultScale)

HasMultipleRoots(nodes) == Cardinality(Roots(nodes)) > 1
HasSelfParent(nodes) == \E k \in 1..Len(nodes) : nodes[k].parent = nodes[k].name
HasMutualParents(nodes) ==
    \E a, b \in 1..Len(nodes) :
        a # b /\ nodes[a].parent = nodes[b].name /\ nodes[b].parent = nodes[a].name
HasUnresolvedParent(nodes) == ~ParentsResolve(nodes)
HasNoRoot(nodes) == Roots(nodes) = {}

(* C2: get_hierarchy_data raises, and returns no joint map, when the given *)
(* map has more than one root, a joint that is its own parent, two joints  *)
(* that are each other's parent, a parent that is no joint, or no root.    *)
C2_ValidationRejects ==
    (/\ pc # "start"
     /\ \/ HasMultipleRoots(GivenMap)
        \/ HasSelfParent(GivenMap)
        \/ HasMutualParents(GivenMap)
        \/ HasUnresolvedParent(GivenMap)
        \/ HasNoRoot(GivenMap))
    => (pc = "error" /\ err # "" /\ joint_info = <<>>)

C2_Witness ==
    /\ pc = "error"
    /\ err = "CyclicRelation"
    /\ HasMutualParents(GivenMap)
    /\ ~HasMultipleRoots(GivenMap) /\ ~HasSelfParent(GivenMap)
    /\ ~HasUnresolvedParent(GivenMap) /\ ~HasNoRoot(GivenMap)

(* C3: every joint map get_hierarchy_data returns has exactly one root,    *)
(* only parents that are joints of the map, and no joint that is its own   *)
(* ancestor.                                                               *)
C3_ReturnedMapIsTree ==
    (pc \notin {"start", "error"}) => IsTree(joint_info)

(* C4: for a validated map listed in pre-order the hierarchy text never    *)
(* closes more scopes than it opened, every joint's block opens directly   *)
(* inside its parent's open scope with as many scopes open as the joint    *)
(* is deep, and no scope is open after the final _close_scopes.            *)
C4_BalancedBraces ==
    (Composing /\ IsPreorder(joint_info)) =>
        /\ \A k \in 0..Len(s) : Closes(s, k) <= Opens(s, k)
        /\ \A k \in 1..Len(s) :
              s[k].kind \in HeaderKinds =>
                 LET st == ScopeStack(s, k - 1)
                     parent == Node(joint_info, s[k].joint).parent
                 IN /\ Len(st) = TreeDepth(joint_info, s[k].joint)
                    /\ Opens(s, k - 1) - Closes(s, k - 1) = Len(st)
                    /\ IF parent = "" THEN st = <<>> ELSE st[Len(st)] = parent
        /\ Composed => OpenScopes(s) = 0

C4_Witness ==
    /\ pc = "done"
    /\ IsPreorder(joint_info)
    /\ \E k \in 1..(Len(depths) - 1) : depths[k] = 2 /\ depths[k + 1] = 1
    /\ OpenScopes(s) = 0

(* The closing braces written between the header of the k-th joint and     *)
(* the header of the next one.                                             *)
ClosedBetween(k) ==
    CountKind(s, HeaderPos(s, joint_info[k].name),
              HeaderPos(s, joint_info[k + 1].name), "}")

ClosingCountHolds ==
    /\ (pc = "close" \/ (pc = "depth" /\ walk.parent = "")) =>
          CountIndent(s[Len(s)]) = OpenScopes(s)
    /\ \A k \in 1..(Len(depths) - 1) :
          ClosedBetween(k) = IF depths[k + 1] <= depths[k]
                             THEN depths[k] - depths[k + 1] + 1 ELSE 0

(* C5 as stated, for every validated map: between a joint at depth p and   *)
(* the next at depth c, p - c + 1 closing braces are written when c <= p   *)
(* and none when c > p, and the indentation of the last line equals the    *)
(* number of open scopes whenever _close_scopes reads it.                  *)
C5_ClosingCountAnyOrder == Composing => ClosingCountHolds

(* C5, amended: the same for validated maps listed in pre-order.           *)
C5_ClosingCountPreorder == (Composing /\ IsPreorder(joint_info)) => ClosingCountHolds

C5_Witness ==
    /\ pc = "done"
    /\ IsPreorder(joint_info)
    /\ \E k \in 1..(Len(depths) - 1) :
          depths[k] = 2 /\ depths[k + 1] = 1 /\ ClosedBetween(k) = 2
    /\ \E k \in 1..(Len(depths) - 1) : depths[k + 1] > depths[k] /\ ClosedBetween(k) = 0

(***************************************************************************)
(* SpecMotion: csv2bvh_string on the tables of the skeleton                *)
(* Hips -> Spine -> End Site, for every order of the rotation table's      *)
(* columns and every scale of 1..MaxScale.  A cell's value tells its       *)
(* column and frame, so a value in the wrong place shows.                  *)
(***************************************************************************)
MaxScale == 2

AxisNo(a) == CHOOSE k \in 1..3 : Axes[k] = a

MotionHierarchy ==
    <<[joint |-> "Hips",  parent |-> "",      offset |-> <<0, 0, 0>>],
      [joint |-> "Spine", parent |-> "Hips",  offset |-> <<0, 10, 0>>],
      [joint |-> "Spine_End", parent |-> "Spine", offset |-> <<0, 5, 0>>]>>

JointNo(j) == CHOOSE k \in 1..Len(MotionHierarchy) : MotionHierarchy[k].joint = j

PosCell(j, a, f) == 1000 + 100 * f + 10 * JointNo(j) + AxisNo(a)
RotCell(j, a, f) == 2000 + 100 * f + 10 * JointNo(j) + AxisNo(a)

TableOf(cols, Cell(_, _, _), n) ==
    [cols |-> cols,
     data |-> [f \in 1..n |-> [k \in 1..Len(cols) |->
                  IF cols[k] = TimeCol THEN (f - 1) * FrameTime
                  ELSE Cell(cols[k].joint, cols[k].axis, f)]]]

MotionPosCols ==
    <<TimeCol>> \o Concat([k \in 1..Len(MotionHierarchy) |->
                     [a \in 1..3 |-> Col(MotionHierarchy[k].joint, Axes[a])]])

MotionRotCols ==
    <<Col("Hips", "z"), Col("Hips", "x"), Col("Hips", "y"),
      Col("Spine", "z"), Col("Spine", "x"), Col("Spine", "y")>>

ColumnOrders(n) == {f \in [1..n -> 1..n] : \A a, b \in 1..n : f[a] = f[b] => a = b}

InitMotion ==
    /\ hierarchy_file = MotionHierarchy
    /\ position_file = TableOf(MotionPosCols, PosCell, 2)
    /\ \E f \in ColumnOrders(Len(MotionRotCols)) :
          rotation_file = TableOf(<<TimeCol>> \o [k \in 1..Len(MotionRotCols) |-> MotionRotCols[f[k]]],
                                  RotCell, 2)
    /\ scale \in 1..MaxScale
    /\ Csv2BvhLocalsInit
    /\ Bvh2CsvIdle

SpecMotion == InitMotion /\ [][Csv2BvhString]_vars

(* The channels the hierarchy text declares, in the order of its CHANNELS  *)
(* lines: [joint, channel].                                                *)
DeclaredChannels(lines) ==
    Concat([k \in 1..Len(lines) |->
              IF lines[k].kind = "CHANNELS"
              THEN [c \in 1..Len(lines[k].arg) |->
                       [joint |-> lines[k].joint, channel |-> lines[k].arg[c]]]
              ELSE <<>>])

Lower(c) == Lower1(c)

IsPosition(c) == c \in {"Xposition", "Yposition", "Zposition"}

(* The value the tables hold for a declared channel in frame f: the        *)
(* position cell times the scale, or the rotation cell.                    *)
TableValue(ch, f) ==
    IF IsPosition(ch.channel)
    THEN scale * position_file.data[f][ColIndex(position_file.cols, Col(ch.joint, Lower(ch.channel)))]
    ELSE rotation_file.data[f][ColIndex(rotation_file.cols, Col(ch.joint, Lower(ch.channel)))]

(* C6: in every MOTION row the k-th value is the table value of the k-th   *)
(* channel the hierarchy text declares, whatever the order of the          *)
(* rotation table's columns.                                               *)
C6_MotionFollowsHierarchy ==
    (pc = "done") =>
        \A f \in 1..Len(motion.frames) :
            /\ Len(motion.frames[f]) = Len(DeclaredChannels(s))
            /\ \A k \in 1..Len(motion.frames[f]) :
                  motion.frames[f][k] = TableValue(DeclaredChannels(s)[k], f)

(* C10: every OFFSET line holds scale times the offset of the hierarchy    *)
(* table, and every root position value of the MOTION rows scale times     *)
(* the value of the position table.                                        *)
C10_ScaleOnOffsetsAndPositions ==
    (pc = "done") =>
        /\ \A k \in 1..Len(s) :
              s[k].kind = "OFFSET" =>
                 s[k].arg = [a \in 1..3 |->
                               scale * hierarchy_file[IdxOf(GivenMap, s[k].joint)].offset[a]]
        /\ \A f \in 1..Len(motion.frames) : \A k \in 1..Len(root_pos.channels) :
              motion.frames[f][k] =
                 scale * position_file.data[f][ColIndex(position_file.cols,
                             Col(get_root_name(joint_info), Lower(root_pos.channels[k])))]

(***************************************************************************)
(* SpecFK: bvh2csv on every skeleton of up to MaxJoints joints listed in   *)
(* pre-order, an End Site below every leaf joint, rotations of 0 or 90     *)
(* degrees alternating along the joints, two frames, both variants of      *)
(* write_joint_positions, with and without end sites, at every scale of    *)
(* 1..MaxScale.                                                            *)
(***************************************************************************)
MaxJoints == 3

V3(x, y, z) == <<x * Unit, y * Unit, z * Unit>>

OffsetTable == <<V3(0, 0, 0), V3(0, 10, 0), V3(3, 0, 0), V3(0, 0, 7), V3(1, 1, 1)>>
EndOffset == V3(0, 5, 0)
RootPositions == {V3(0, 0, 0), V3(1, 2, 1)}

(* Values of the channels Zrotation, Xrotation, Yrotation. *)
RotChoices == <<V3(0, 0, 0), V3(90, 0, 0), V3(0, 90, 0)>>

RootChannels == <<"Xposition", "Yposition", "Zposition", "Zrotation", "Xrotation", "Yrotation">>
JointChannels == <<"Zrotation", "Xrotation", "Yrotation">>

(* The indices on the chain from joint k up to the root, for a vector of   *)
(* parent indices.                                                         *)
RECURSIVE ChainOf(_, _)
ChainOf(ps, k) == IF k = 0 THEN {} ELSE {k} \cup ChainOf(ps, ps[k])

(* Parent vectors of n joints in pre-order. *)
Shapes(n) == {ps \in [1..n -> 0..(n - 1)] :
                 /\ ps[1] = 0
                 /\ \A k \in 2..n : ps[k] \in 1..(k - 1) /\ ps[k] \in ChainOf(ps, k - 1)}

Leaves(ps) == {k \in 1..Len(ps) : \A m \in 1..Len(ps) : ps[m] # k}

(* The k-th smallest element of a set of numbers. *)
RECURSIVE Sorted(_)
Sorted(S) == IF S = {} THEN <<>>
             ELSE LET m == CHOOSE x \in S : \A y \in S : x <= y
                  IN <<m>> \o Sorted(S \ {m})

(* The tree of a parent vector: its joints, then the End Site of each      *)
(* leaf (named after its parent, as BvhTree names end sites).              *)
NamedJoints(ps, names, channels) ==
    LET n == Len(ps)
        leaves == Sorted(Leaves(ps))
    IN [k \in 1..n |->
          [name |-> names[k], parent |-> ps[k],
           kind |-> IF k = 1 THEN "ROOT" ELSE "JOINT",
           offset |-> OffsetTable[k],
           channels |-> IF k = 1 THEN SubSeq(RootChannels, 1, 3) \o channels
                        ELSE channels]]
       \o [k \in 1..Len(leaves) |->
          [name |-> names[leaves[k]] \o "_End", parent |-> leaves[k],
           kind |-> "End", offset |-> EndOffset, channels |-> <<>>]]

TreeJoints(ps) == NamedJoints(ps, AllNames, JointChannels)

(* Frame f of a choice of rotations: in the second frame the rotation     *)
(* choices other than the first (no rotation) are taken in reverse, and    *)
(* the root position has grown by (1, 1, 1).                               *)
FrameValues(joints, rootpos, rots, f) ==
    [j \in 1..Len(joints) |->
        LET r == IF joints[j].kind = "End" THEN Zero3
                 ELSE IF f = 1 \/ rots[j] = 1 THEN RotChoices[rots[j]]
                 ELSE RotChoices[Len(RotChoices) + 2 - rots[j]]
        IN IF joints[j].kind = "ROOT"
           THEN [a \in 1..3 |-> rootpos[a] + (f - 1) * Unit] \o r
           ELSE IF joints[j].kind = "JOINT" THEN r ELSE <<>>]

(* The rotation choices of n joints: one for the root, one for the second  *)
(* joint, and the later joints alternate between the two.                  *)
RotationVectors(n) ==
    {rots \in [1..n -> 1..Len(RotChoices)] : \A k \in 3..n : rots[k] = rots[k - 2]}

FKTrees ==
    UNION {UNION {{[joints |-> TreeJoints(ps), nframes |-> 2, frame_time |-> FrameTime,
                    frames |-> [f \in 1..2 |-> FrameValues(TreeJoints(ps), rp, rots, f)]]
                   : rp \in RootPositions, rots \in RotationVectors(n)}
                  : ps \in Shapes(n)}
           : n \in 1..MaxJoints}

Bvh2CsvInit ==
    /\ pc = "bvh2csv"
    /\ outcome = NoOutcome
    /\ err = ""
    /\ Csv2BvhLocalsFresh
    /\ hierarchy_file = <<>>
    /\ position_file = NoTable
    /\ rotation_file = NoTable
    /\ world = <<>>
    /\ joint_stack = <<>>
    /\ visited = <<>>

InitFK ==
    /\ bvh \in FKTrees
    /\ scale \in 1..MaxScale
    /\ end_sites \in BOOLEAN
    /\ variant \in {"recursive", "stack"}
    /\ exports = ExportAll
    /\ Bvh2CsvInit

SpecFK == InitFK /\ [][Bvh2Csv]_vars

(* write_joint_positions has just saved the positions table. *)
PositionsWritten == bvh # NoTree /\ pc = "rotations_out"

(* The exported position of joint j in frame f. *)
Exported(j, f) ==
    [a \in 1..3 |-> position_file.data[f][ColIndex(position_file.cols,
                                                     Col(bvh.joints[j].name, Axes[a]))]]

Times3(k, v) == [a \in 1..3 |-> k * v[a]]
Fmt3(v) == [a \in 1..3 |-> Fmt5(v[a])]

(* C7: every exported position is scale times the joint's unscaled world   *)
(* translation, at every depth and in every frame.                         *)
C7_ScaleAppliedOnce ==
    PositionsWritten =>
        \A k \in 1..Len(visited) : \A f \in 1..bvh.nframes :
            Exported(visited[k], f) =
                Fmt3(Times3(scale, world_transforms(bvh, visited[k], f, 1).t))

(* The tree with the values of joint j's rotation channels replaced, in    *)
(* every frame, by vals.                                                   *)
WithRotation(tree, j, vals) ==
    [tree EXCEPT !.frames = [f \in 1..tree.nframes |->
        [tree.frames[f] EXCEPT ![j] =
            IF tree.joints[j].kind = "ROOT" THEN SubSeq(@, 1, 3) \o vals ELSE vals]]]

RootPosition(tree, f) ==
    [a \in 1..3 |-> tree.frames[f][RootOf(tree)][a]]

(* C8: the root's exported position is its position channels times scale,  *)
(* and the exported position of a joint other than the root is the one     *)
(* the export gives for any other values of that joint's own rotation      *)
(* channels.                                                               *)
C8_OwnRotationIrrelevant ==
    PositionsWritten =>
        \A f \in 1..bvh.nframes :
            /\ Exported(RootOf(bvh), f) = Fmt3(Times3(scale, RootPosition(bvh, f)))
            /\ \A k \in 1..Len(visited) :
                  (bvh.joints[visited[k]].kind = "JOINT") =>
                     \A c \in 1..Len(RotChoices) :
                        Exported(visited[k], f) =
                           Fmt3(world_transforms(WithRotation(bvh, visited[k], RotChoices[c]),
                                                 visited[k], f, scale).t)

C8_Witness ==
    /\ PositionsWritten
    /\ scale = 2
    /\ \E k \in 1..Len(visited) :
          /\ bvh.joints[visited[k]].kind = "JOINT"
          /\ bvh.frames[1][visited[k]] # Zero3
          /\ bvh.joints[visited[k]].parent # RootOf(bvh)
    /\ RootPosition(bvh, 1) # Zero3

(* The sum of the offsets of the joints other than the root on the path    *)
(* from the root to joint j.                                               *)
RECURSIVE PathOffset(_, _)
PathOffset(tree, j) ==
    IF j = RootOf(tree) THEN Zero3
    ELSE [a \in 1..3 |-> PathOffset(tree, tree.joints[j].parent)[a] + tree.joints[j].offset[a]]

(* The scenario of the specification: Hips -> Spine (0, 10, 0) -> End Site *)
(* (0, 5, 0), root position 0, written with its end site.                  *)
C9_Witness ==
    /\ PositionsWritten /\ scale = 1 /\ end_sites
    /\ Len(bvh.joints) = 3
    /\ bvh.joints[2].name = "Spine" /\ bvh.joints[2].offset = V3(0, 10, 0)
    /\ bvh.joints[3].kind = "End" /\ bvh.joints[3].parent = 2
    /\ bvh.joints[3].offset = V3(0, 5, 0)
    /\ \A f \in 1..2 : \A c \in 4..6 : bvh.frames[f][1][c] = 0
    /\ \A f \in 1..2 : bvh.frames[f][2] = Zero3
    /\ RootPosition(bvh, 1) = Zero3
    /\ Exported(2, 1) = V3(0, 10, 0)
    /\ Exported(3, 1)[2] = 15 * Unit

AllRotationsZero(tree) ==
    \A f \in 1..tree.nframes : \A j \in 1..Len(tree.joints) :
        \A c \in 1..Len(tree.joints[j].channels) :
            IsRotation(tree.joints[j].channels[c]) => tree.frames[f][j][c] = 0

(* C9: at scale 1 with every rotation zero, every exported position is     *)
(* the root's position plus the offsets along the path from the root.      *)
C9_ZeroRotationSumsOffsets ==
    (PositionsWritten /\ scale = 1 /\ AllRotationsZero(bvh)) =>
        \A k \in 1..Len(visited) : \A f \in 1..bvh.nframes :
            Exported(visited[k], f) =
                Fmt3([a \in 1..3 |-> RootPosition(bvh, f)[a] + PathOffset(bvh, visited[k])[a]])

(***************************************************************************)
(* SpecRT: bvh2csv at scale 1 and then csv2bvh_string on the three tables  *)
(* it wrote, for skeletons of up to MaxJoints joints with two frames,      *)
(* short or long joint names, two channel orders and two frame times.      *)
(***************************************************************************)
LongNames == [AllNames EXCEPT ![2] = "mixamorig:LeftHandThumb1"]
NameTables == {AllNames, LongNames}

ChannelOrders == {JointChannels, <<"Xrotation", "Yrotation", "Zrotation">>}

(* 30 and 25 frames a second, in microseconds. *)
FrameTimes == {FrameTime, 40000}

RTTrees ==
    UNION {UNION {{[joints |-> NamedJoints(ps, names, channels), nframes |-> 2,
                    frame_time |-> ft,
                    frames |-> [f \in 1..2 |->
                        FrameValues(NamedJoints(ps, names, channels), rp, rots, f)]]
                   : rp \in RootPositions, names \in NameTables,
                     channels \in ChannelOrders, ft \in FrameTimes,
                     rots \in {r \in RotationVectors(n) : r[1] = 2}}
                  : ps \in Shapes(n)}
           : n \in 1..MaxJoints}

InitRT ==
    /\ bvh \in RTTrees
    /\ scale = 1
    /\ end_sites \in BOOLEAN
    /\ variant \in {"recursive", "stack"}
    /\ exports = ExportAll
    /\ Bvh2CsvInit

RoundTrip == Bvh2Csv \/ Csv2BvhString

SpecRT == InitRT /\ [][RoundTrip]_vars

IsHeader(line) == line.kind \in HeaderKinds

HeaderOf(kind) == CASE kind = "ROOT" -> "ROOT" [] kind = "JOINT" -> "JOINT"
                    [] kind = "End" -> "End Site"

(* The hierarchy text lines describe the joints of tree: block by block    *)
(* the same kind, name, enclosing joint, offset and channels.              *)
SameJointTree(tree, lines) ==
    LET order == get_joints(tree, TRUE)
        heads == SelectIdx(lines, IsHeader)
    IN /\ Len(heads) = Len(order)
       /\ \A k \in 1..Len(order) :
             LET j == tree.joints[order[k]]
                 i == heads[k]
                 st == ScopeStack(lines, i - 1)
             IN /\ lines[i].kind = HeaderOf(j.kind)
                /\ (j.kind # "End") => lines[i].arg = <<j.name>>
                /\ IF j.kind = "ROOT" THEN st = <<>>
                   ELSE st # <<>> /\ st[Len(st)] = tree.joints[j.parent].name
                /\ i + 2 <= Len(lines)
                /\ lines[i + 2].kind = "OFFSET" /\ lines[i + 2].arg = j.offset
                /\ (j.kind # "End") =>
                      /\ i + 3 <= Len(lines)
                      /\ lines[i + 3].kind = "CHANNELS"
                      /\ lines[i + 3].arg = j.channels

Rebuilt == bvh # NoTree /\ pc \in {"done", "error"}

(* C1: after exporting a tree at scale 1 and rebuilding from the tables,   *)
(* the rebuild has succeeded, its hierarchy text describes the same joint  *)
(* tree (names, parents, offsets, channel order) and its MOTION header has *)
(* the same frame count and the same frame time.                           *)
C1_RoundTrip ==
    Rebuilt =>
        /\ err = ""
        /\ SameJointTree(bvh, s)
        /\ motion.n_frames = bvh.nframes
        /\ motion.frame_time.num = motion.frame_time.den * bvh.frame_time

(***************************************************************************)
(* SpecTime: _get_frame_time on every time column of up to MaxSamples      *)
(* samples.  The column is the time column of rotation_file, as it is in   *)
(* csv2bvh_string (line 370); the value returned is motion.frame_time.     *)
(***************************************************************************)
MaxSamples == 3

TimeValues == {0, 33333, 100000, 200000}

TimeSteps(table) ==
    [r \in 1..Len(table.data) |-> table.data[r][ColIndex(table.cols, TimeCol)]]

(* _get_frame_time on a 1-D array: time_steps[-1] raises IndexError on an  *)
(* empty array; the division has no guard, so one sample divides by 0,     *)
(* which numpy answers with nan or inf and a warning (the fraction with    *)
(* den = 0).                                                               *)
GetFrameTime ==
    /\ pc = "frame_time"
    /\ IF TimeSteps(rotation_file) = <<>>
       THEN /\ err' = "IndexError"
            /\ pc' = "error"
            /\ UNCHANGED motion
       ELSE /\ motion' = [motion EXCEPT
                             !.frame_time = _get_frame_time(TimeSteps(rotation_file))]
            /\ pc' = "done"
            /\ UNCHANGED err
    /\ UNCHANGED <<bvhvars, inputs, joint_info, root_pos, s, cur, walk, depths>>

InitTime ==
    /\ pc = "frame_time"
    /\ err = ""
    /\ Csv2BvhLocalsFresh
    /\ Bvh2CsvIdle
    /\ hierarchy_file = <<>>
    /\ position_file = NoTable
    /\ scale = 1
    /\ \E n \in 0..MaxSamples : \E ts \in [1..n -> TimeValues] :
          rotation_file = [cols |-> <<TimeCol>>, data |-> [r \in 1..n |-> <<ts[r]>>]]

SpecTime == InitTime /\ [][GetFrameTime]_vars

FrameTimeCalled == pc \in {"done", "error"}

AcceptedTables == {rows \in HierTables : get_hierarchy_data(rows, DefaultScale).err = ""}

InnerJoints(rows) == {r.joint : r \in {q \in Range(rows) : \E c \in Range(rows) : c.parent = q.joint}}

RotationJointSets(rows) ==
    LET inner == InnerJoints(rows)
        names == {r.joint : r \in Range(rows)}
    IN {inner} \cup {inner \ {j} : j \in inner} \cup {inner \cup {j} : j \in names \ inner}

RotationTableOf(rows, joints) ==
    LET with == SelectIdx(rows, LAMBDA r : r.joint \in joints)
        cols == <<TimeCol>> \o Concat([k \in 1..Len(with) |->
                    <<Col(rows[with[k]].joint, "z"), Col(rows[with[k]].joint, "x"),
                      Col(rows[with[k]].joint, "y")>>])
    IN [cols |-> cols,
        data |-> <<[k \in 1..Len(cols) |-> 0],
                   [k \in 1..Len(cols) |-> IF k = 1 THEN FrameTime ELSE 0]>>]

InitRot ==
    /\ hierarchy_file \in AcceptedTables
    /\ position_file = CompanionPos(hierarchy_file)
    /\ \E joints \in RotationJointSets(hierarchy_file) :
          rotation_file = RotationTableOf(hierarchy_file, joints)
    /\ scale = 1
    /\ Csv2BvhLocalsInit
    /\ Bvh2CsvIdle

SpecRot == InitRot /\ [][Csv2BvhString]_vars

HasRotationColumns(joint) == joint \in df_to_joints(rotation_file.cols)

(* The joints of the validated map that have children but no rotation      *)
(* column.                                                                 *)
MissingRotationJoints ==
    {k \in 1..Len(joint_info) :
        joint_info[k].children # <<>> /\ ~HasRotationColumns(joint_info[k].name)}

(* The block of a joint in the text is that of an end site: the header     *)
(* 'End Site', a brace, its OFFSET, the closing brace, and no CHANNELS     *)
(* line of the joint anywhere.                                             *)
IsEndSiteBlock(lines, joint) ==
    LET i == HeaderPos(lines, joint)
    IN /\ lines[i].kind = "End Site"
       /\ i + 3 <= Len(lines)
       /\ lines[i + 1].kind = "{"
       /\ lines[i + 2].kind = "OFFSET"
       /\ lines[i + 2].arg = Node(joint_info, joint).offset
       /\ lines[i + 3].kind = "}"
       /\ \A k \in 1..Len(lines) : ~(lines[k].kind = "CHANNELS" /\ lines[k].joint = joint)

BlockWritten(joint) ==
    \E k \in 1..Len(s) : s[k].kind \in HeaderKinds /\ s[k].joint = joint

FailsBeforeText ==
    (joint_info # <<>> /\ MissingRotationJoints # {}) =>
        (s = <<>> /\ pc \in {"positions", "rotations", "error"})

Finishes == pc \in {"done", "error"}

FailsInTheEnd ==
    (Finishes /\ MissingRotationJoints # {}) => (pc = "error" /\ err # "")

HierarchyWritten == bvh # NoTree /\ pc = "start"

(* C13: the hierarchy table has one row per joint of the tree, end sites   *)
(* included, in traversal order; each row holds the joint's name, its      *)
(* parent's name (empty for the root only) and its offset times scale; no  *)
(* two rows name the same joint and every non-empty parent cell is the     *)
(* joint cell of a row.                                                    *)
C13_HierarchyRowsUnaltered ==
    HierarchyWritten =>
        LET order == get_joints(bvh, TRUE)
            rows == hierarchy_file
        IN /\ Len(rows) = Len(bvh.joints)
           /\ Len(rows) = Len(order)
           /\ \A k \in 1..Len(rows) :
                 /\ rows[k].joint = bvh.joints[order[k]].name
                 /\ rows[k].parent = joint_parent_name(bvh, order[k])
                 /\ (rows[k].parent = "") <=> (order[k] = RootOf(bvh))
                 /\ rows[k].offset = Times3(scale, bvh.joints[order[k]].offset)
           /\ \A k, m \in 1..Len(rows) : rows[k].joint = rows[m].joint => k = m
           /\ \A k \in 1..Len(rows) :
                 rows[k].parent # "" => \E m \in 1..Len(rows) : rows[m].joint = rows[k].parent

(***************************************************************************)
(* SpecJob: bvh2csv on every skeleton shape of up to MaxJoints joints,     *)
(* for every choice of the export_* parameters and of the files that can   *)
(* be opened.                                                              *)
(***************************************************************************)
JobTrees ==
    {t \in FKTrees : RootPosition(t, 1) = Zero3 /\ AllRotationsZero(t)}

ExportChoices ==
    [readable : BOOLEAN, position : BOOLEAN, rotation : BOOLEAN, hierarchy : BOOLEAN,
     writable : [position : BOOLEAN, rotation : BOOLEAN, hierarchy : BOOLEAN]]

InitJob ==
    /\ bvh \in JobTrees
    /\ scale = 1
    /\ end_sites = TRUE
    /\ variant \in {"recursive", "stack"}
    /\ exports \in ExportChoices
    /\ Bvh2CsvInit

SpecJob == InitJob /\ [][Bvh2Csv]_vars

Returned == outcome.returned # "none"

(* A requested table that was not written. *)
RequestedArtifactFailed ==
    \/ exports.position /\ ~(exports.readable /\ exports.writable.position)
    \/ exports.rotation /\ ~(exports.readable /\ exports.writable.rotation)
    \/ exports.hierarchy /\ ~(exports.readable /\ exports.writable.hierarchy)

(* C14: when bvh2csv has returned and a requested table was not written,   *)
(* the value returned is False; so True is returned only when every        *)
(* requested table was written.                                            *)
C14_FalseOnAnyFailure ==
    (Returned /\ RequestedArtifactFailed) => outcome.returned = "False"

(* The depths _get_joint_depth has returned so far are 0 for a joint       *)
(* without parent and, for any other joint, one more than the depth of its *)
(* parent (the length of the parent's chain to the root, and the value     *)
(* returned for the parent where that has been returned already).          *)
ReturnedDepthsHold ==
    \A k \in 1..Len(depths) :
        IF joint_info[k].parent = "" THEN depths[k] = 0
        ELSE LET p == IdxOf(joint_info, joint_info[k].parent)
             IN /\ depths[k] = TreeDepth(joint_info, joint_info[k].parent) + 1
                /\ p <= Len(depths) => depths[k] = depths[p] + 1

(* C15: for every joint of a validated map _get_joint_depth returns 0 for  *)
(* the root and the parent's depth plus 1 otherwise: the depths returned   *)
(* so far are these, and the walk that is running returns one, its count   *)
(* staying below the number of joints.                                     *)
C15_DepthOfEveryJoint ==
    /\ ReturnedDepthsHold
    /\ pc = "depth" => walk.depth < Len(joint_info)

(***************************************************************************)
(* SpecHierFair: SpecHier with the interpreter always executing the next   *)
(* iteration of _get_joint_depth's while loop (lines 226-228) when there   *)
(* is one.                                                                 *)
(***************************************************************************)
SpecHierFair == InitHier /\ [][Csv2BvhString]_vars /\ WF_vars(JointDepthLoop)

(* C16: for every map hierarchy_sanity_check accepts, each walk            *)
(* _get_joint_depth starts reaches the root, the joint whose parent is     *)
(* empty, so that csv2bvh_string never loops forever.                      *)
C16_DepthWalkTerminates == (pc = "depth") ~> (walk.parent = "")

(***************************************************************************)
(* SpecWalk: bvh2csv on every tree shape with one choice of rotations, in  *)
(* both variants of write_joint_positions, the interpreter always          *)
(* executing the next call of get_world_positions, or the next iteration   *)
(* of the joint_stack loop, when there is one.                             *)
(***************************************************************************)
WalkRotations(n) == [k \in 1..n |-> 1 + (k % Len(RotChoices))]

WalkTrees ==
    UNION {{[joints |-> TreeJoints(ps), nframes |-> 2, frame_time |-> FrameTime,
             frames |-> [f \in 1..2 |->
                           FrameValues(TreeJoints(ps), V3(1, 2, 1), WalkRotations(n), f)]]
            : ps \in Shapes(n)}
           : n \in 1..MaxJoints}

InitWalk ==
    /\ bvh \in WalkTrees
    /\ scale \in 1..MaxScale
    /\ end_sites \in BOOLEAN
    /\ variant \in {"recursive", "stack"}
    /\ exports = ExportAll
    /\ Bvh2CsvInit

SpecWalk ==
    InitWalk /\ [][Bvh2Csv]_vars /\ WF_vars(GetWorldPositions) /\ WF_vars(JointStackLoop)

(* The nodes write_joint_positions has to process: every joint, and the    *)
(* first End Site of a joint when end_sites is set.                        *)
ToProcess ==
    {j \in 1..Len(bvh.joints) : bvh.joints[j].kind \in {"ROOT", "JOINT"}}
    \cup (IF end_sites
          THEN {Filter(bvh, j, "End")[1] :
                   j \in {k \in 1..Len(bvh.joints) : Filter(bvh, k, "End") # <<>>}}
          ELSE {})

(* The columns of a table, each with its values over the frames. *)
ColumnSet(table) ==
    {[col |-> table.cols[c], values |-> [f \in 1..Len(table.data) |-> table.data[f][c]]]
        : c \in 1..Len(table.cols)}

(* The positions table of the tree, end_sites and scale at hand, from the  *)
(* joints in file order and each joint's chain of transforms: it is the    *)
(* same for both variants.                                                 *)
ReferencePositions ==
    PositionsTable(bvh, get_joints(bvh, end_sites),
                   [j \in 1..Len(bvh.joints) |->
                       [f \in 1..bvh.nframes |-> world_transforms(bvh, j, f, scale)]])

WritingPositions == bvh # NoTree /\ pc = "positions_out"

(* A joint other than the root is processed after its parent, no node is   *)
(* processed twice, and only nodes to process are processed or waiting.    *)
ParentFirstOnce ==
    /\ \A i \in 1..Len(visited) :
          /\ visited[i] # RootOf(bvh) =>
                \E m \in 1..(i - 1) : visited[m] = bvh.joints[visited[i]].parent
          /\ \A m \in 1..Len(visited) : visited[m] = visited[i] => m = i
          /\ visited[i] \in ToProcess
    /\ DOMAIN world = Range(visited)
    /\ Range(joint_stack) \subseteq ToProcess \ Range(visited)

(* When the walk is over every node to process has been processed, and the *)
(* table holds the columns of the reference table, each once.              *)
AllProcessedSameColumns ==
    /\ joint_stack = <<>>
    /\ Range(visited) = ToProcess
    /\ Len(position_file.cols) = 1 + 3 * Cardinality(ToProcess)
    /\ ColumnSet(position_file) = ColumnSet(ReferencePositions)

(* C17: in both write_joint_positions variants a joint's world transform   *)
(* is computed after its parent's, every joint (and first End Site, with   *)
(* end_sites) is processed exactly once, the walk ends with an empty       *)
(* stack, and both variants export the same columns with the same values.  *)
C17_ParentFirstOnceSameColumns ==
    /\ [](WritingPositions => ParentFirstOnce)
    /\ [](PositionsWritten => (ParentFirstOnce /\ AllProcessedSameColumns))
    /\ WritingPositions ~> (WritingPositions /\ joint_stack = <<>>)

(* The stack variant has written the table of a tree with an End Site and  *)
(* a joint of two children, in an order other than the recursive one.      *)
C17_Witness ==
    /\ PositionsWritten
    /\ variant = "stack"
    /\ end_sites
    /\ visited # get_joints(bvh, end_sites)
    /\ \E j \in 1..Len(bvh.joints) : Len(Filter(bvh, j, "JOINT")) = 2
    /\ \E k \in 1..Len(visited) : bvh.joints[visited[k]].kind = "End"

====
